---- MODULE Spec2Model ----
(***************************************************************************)
(* Model of sepsis_utils.py: the exact binomial confidence interval        *)
(* (binomial_proportion, binomial_proportion_ci), the confusion-matrix     *)
(* statistics (get_op_stats) and their reports (print_op_stats,            *)
(* print_stats_to_file).                                                   *)
(*                                                                         *)
(* Python floats are modelled as exact rationals: a float is a record      *)
(* [sg, n, d] with sign sg in {-1,0,1} and magnitude n/d, n and d natural  *)
(* numbers of arbitrary size held as little-endian digit sequences.        *)
(***************************************************************************)
EXTENDS Integers, Sequences, FiniteSets, TLC

-----------------------------------------------------------------------------
(* Natural numbers of arbitrary size: sequences of digits, lowest first,   *)
(* no zero at the top; zero is the empty sequence.                         *)

\* digits are ten bits wide
BITS == 10
BASE == 2 ^ BITS

RECURSIVE BNat(_)
BNat(i) == IF i = 0 THEN <<>> ELSE <<i % BASE>> \o BNat(i \div BASE)

Max(S) == CHOOSE m \in S : \A k \in S : k <= m

\* t without the zeros at its top
BTrim(t) ==
  LET nz == {i \in 1..Len(t) : t[i] # 0}
  IN  IF nz = {} THEN <<>> ELSE SubSeq(t, 1, Max(nz))

BDigit(a, i) == IF i >= 1 /\ i <= Len(a) THEN a[i] ELSE 0

\* the sequence t with its elements computed
Explicit(t) == t \o <<>>

\* the machine integer a magnitude of at most three digits stands for
BSmall(a) == Len(a) <= 3
BInt(a) == BDigit(a, 1) + BASE * (BDigit(a, 2) + BASE * BDigit(a, 3))

RECURSIVE GCD(_, _)
GCD(a, b) == IF b = 0 THEN a ELSE GCD(b, a % b)

Abs(i) == IF i < 0 THEN -i ELSE i
Sign(i) == IF i < 0 THEN -1 ELSE IF i > 0 THEN 1 ELSE 0

\* The arithmetic is one recursive operator, Arith(op, x), with one arm per
\* operation; the operations are named here and call each other by name.
RECURSIVE Arith(_, _)

\* one carry pass over column values
BPass(t) == Arith("BPass", <<t>>)
\* the digits of a number given by columns t[i] <= 2*BASE - 2
BCarry(t) == Arith("BCarry", <<t>>)
BAdd(a, b) == Arith("BAdd", <<a, b>>)
\* a - b for a >= b
BSub(a, b) == Arith("BSub", <<a, b>>)
\* the sum of a[i] * b[k + 1 - i] for i in lo..hi
BColumn(a, b, k, lo, hi) == Arith("BColumn", <<a, b, k, lo, hi>>)
BMul(a, b) == Arith("BMul", <<a, b>>)
\* -1, 0, 1 as a < b, a = b, a > b
BCmp(a, b) == Arith("BCmp", <<a, b>>)
\* the number of factors two of a # 0
BTwos(a) == Arith("BTwos", <<a>>)
\* a \div 2^t
BShr(a, t) == Arith("BShr", <<a, t>>)
BPow(a, e) == Arith("BPow", <<a, e>>)

(* Floats as exact signed rationals; a division by zero is the caller's to *)
(* exclude.                                                                *)

RZero == [sg |-> 0, n |-> <<>>, d |-> <<1>>]

\* the same value in lower terms: the common factors of two are removed, and
\* when both parts then fit a machine integer the fraction is fully reduced
RNorm(a) == Arith("RNorm", <<a>>)

\* the float i for a machine integer i
RInt(i) == [sg |-> Sign(i), n |-> BNat(Abs(i)), d |-> <<1>>]
\* the float i/j for machine integers i and j, j > 0
RFrac(i, j) == RNorm([sg |-> Sign(i), n |-> BNat(Abs(i)), d |-> BNat(j)])

RNeg(a) == [a EXCEPT !.sg = -a.sg]
RMul(a, b) == Arith("RMul", <<a, b>>)
\* a / b for b # 0
RDiv(a, b) == Arith("RDiv", <<a, b>>)
RAdd(a, b) == Arith("RAdd", <<a, b>>)
RSub(a, b) == Arith("RAdd", <<a, RNeg(b)>>)
\* -1, 0, 1 as a < b, a = b, a > b
RCmp(a, b) == Arith("RCmp", <<a, b>>)

RLt(a, b) == RCmp(a, b) < 0
RLe(a, b) == RCmp(a, b) <= 0
RGt(a, b) == RCmp(a, b) > 0
REq(a, b) == RCmp(a, b) = 0

(* numpy float64 arithmetic, as get_op_stats uses it: a division by zero   *)
(* gives nan or inf (with a warning) and never raises, and nan propagates. *)
(* nan is 0/0 and inf is 1/0: the magnitudes have the empty denominator.   *)

NaN == [sg |-> 0, n |-> <<>>, d |-> <<>>]
Inf(sg) == [sg |-> sg, n |-> <<1>>, d |-> <<>>]

IsNaN(x) == x.d = <<>> /\ x.sg = 0
IsInf(x) == x.d = <<>> /\ x.sg # 0
IsFinite(x) == x.d # <<>>

NMul(a, b) == Arith("NMul", <<a, b>>)
NDiv(a, b) == Arith("NDiv", <<a, b>>)
NAdd(a, b) == Arith("NAdd", <<a, b>>)
NSub(a, b) == Arith("NAdd", <<a, IF IsNaN(b) THEN NaN ELSE RNeg(b)>>)

Arith(op, x) ==
  CASE op = "RNorm" ->
         LET a == x[1]
         IN  IF a.sg = 0 THEN RZero
             ELSE LET tn == BTwos(a.n)
                      td == BTwos(a.d)
                      t  == IF tn < td THEN tn ELSE td
                      n  == BShr(a.n, t)
                      d  == BShr(a.d, t)
                  IN  IF BSmall(n) /\ BSmall(d)
                      THEN LET g == GCD(BInt(n), BInt(d))
                           IN  [sg |-> a.sg, n |-> BNat(BInt(n) \div g),
                                d |-> BNat(BInt(d) \div g)]
                      ELSE [sg |-> a.sg, n |-> n, d |-> d]
    [] op = "RMul" ->
         LET a == x[1]
             b == x[2]
         IN  IF a.sg = 0 \/ b.sg = 0 THEN RZero
             ELSE RNorm([sg |-> a.sg * b.sg, n |-> BMul(a.n, b.n), d |-> BMul(a.d, b.d)])
    [] op = "RDiv" ->
         LET a == x[1]
             b == x[2]
         IN  IF a.sg = 0 THEN RZero
             ELSE RNorm([sg |-> a.sg * b.sg, n |-> BMul(a.n, b.d), d |-> BMul(a.d, b.n)])
    [] op = "RAdd" ->
         LET a == x[1]
             b == x[2]
         IN  IF a.sg = 0 THEN b
             ELSE IF b.sg = 0 THEN a
             ELSE LET same == a.d = b.d
                      an == IF same THEN a.n ELSE BMul(a.n, b.d)
                      bn == IF same THEN b.n ELSE BMul(b.n, a.d)
                      dd == IF same THEN a.d ELSE BMul(a.d, b.d)
                      c  == BCmp(an, bn)
                  IN  IF a.sg = b.sg
                      THEN RNorm([sg |-> a.sg, n |-> BAdd(an, bn), d |-> dd])
                      ELSE IF c = 0 THEN RZero
                      ELSE IF c > 0
                      THEN RNorm([sg |-> a.sg, n |-> BSub(an, bn), d |-> dd])
                      ELSE RNorm([sg |-> b.sg, n |-> BSub(bn, an), d |-> dd])
    [] op = "RCmp" ->
         LET a == x[1]
             b == x[2]
         IN  IF a.sg # b.sg THEN (IF a.sg < b.sg THEN -1 ELSE 1)
             ELSE IF a.sg = 0 THEN 0
             ELSE a.sg * BCmp(BMul(a.n, b.d), BMul(b.n, a.d))
    [] op = "BMul" ->
         \* schoolbook product: column sums, three carry passes that bring
         \* every column under 2*BASE - 1, then the look-ahead
         LET a == x[1]
             b == x[2]
         IN  IF a = <<>> \/ b = <<>> THEN <<>>
             ELSE IF b = <<1>> THEN a
             ELSE IF a = <<1>> THEN b
             ELSE BCarry(BPass(BPass(BPass(
                    Explicit([k \in 1..(Len(a) + Len(b)) |->
                                BColumn(a, b, k, 1, Len(a))])))))
    [] op = "BColumn" ->
         LET a == x[1]
             b == x[2]
             k == x[3]
             lo == x[4]
             hi == x[5]
             mid == (lo + hi) \div 2
         IN  IF lo > hi THEN 0
             ELSE IF lo = hi THEN a[lo] * BDigit(b, k + 1 - lo)
             ELSE BColumn(a, b, k, lo, mid) + BColumn(a, b, k, mid + 1, hi)
    [] op = "BPass" ->
         \* each column keeps its low digit and takes the overflow of the
         \* column below
         LET t == x[1]
         IN  Explicit([i \in 1..(Len(t) + 1) |->
                         (BDigit(t, i) % BASE) + (BDigit(t, i - 1) \div BASE)])
    [] op = "BCarry" ->
         \* the carry into column i is 1 when a lower column overflows and
         \* every column between is BASE - 1 (carry look-ahead)
         LET t == x[1]
             cin(i) == \E j \in 1..(i - 1) :
                         t[j] >= BASE /\ \A k \in (j + 1)..(i - 1) : t[k] = BASE - 1
         IN  BTrim([i \in 1..(Len(t) + 1) |->
                      (BDigit(t, i) + (IF cin(i) THEN 1 ELSE 0)) % BASE])
    [] op = "BCmp" ->
         LET a == x[1]
             b == x[2]
             diff == {i \in 1..Len(a) : a[i] # b[i]}
         IN  IF Len(a) < Len(b) THEN -1
             ELSE IF Len(a) > Len(b) THEN 1
             ELSE IF diff = {} THEN 0
             ELSE IF a[Max(diff)] < b[Max(diff)] THEN -1 ELSE 1
    [] op = "BTwos" ->
         LET a == x[1]
             f == CHOOSE i \in 1..Len(a) : a[i] # 0 /\ \A j \in 1..(i - 1) : a[j] = 0
             e == CHOOSE k \in 0..(BITS - 1) :
                    a[f] % (2 ^ k) = 0 /\ a[f] % (2 ^ (k + 1)) # 0
         IN  BITS * (f - 1) + e
    [] op = "BShr" ->
         LET a == x[1]
             w == x[2] \div BITS
             r == x[2] % BITS
         IN  BTrim([i \in 1..(Len(a) - w) |->
                      (a[i + w] \div (2 ^ r))
                      + (BDigit(a, i + w + 1) % (2 ^ r)) * (2 ^ (BITS - r))])
    [] op = "BAdd" ->
         LET a == x[1]
             b == x[2]
         IN  BCarry(Explicit([i \in 1..Max({Len(a), Len(b)}) |->
                                BDigit(a, i) + BDigit(b, i)]))
    [] op = "BSub" ->
         \* the borrow into column i is 1 when a lower column is negative and
         \* every column between is 0
         LET a == x[1]
             b == x[2]
             t == Explicit([i \in 1..Len(a) |-> a[i] - BDigit(b, i)])
             bin(i) == \E j \in 1..(i - 1) :
                         t[j] < 0 /\ \A k \in (j + 1)..(i - 1) : t[k] = 0
         IN  BTrim([i \in 1..Len(a) |-> (t[i] - (IF bin(i) THEN 1 ELSE 0)) % BASE])
    [] op = "BPow" ->
         LET a == x[1]
             e == x[2]
             h == BPow(a, e \div 2)
         IN  IF e = 0 THEN <<1>>
             ELSE IF e % 2 = 0 THEN BMul(h, h) ELSE BMul(a, BMul(h, h))
    [] op = "NMul" ->
         LET a == x[1]
             b == x[2]
         IN  IF IsNaN(a) \/ IsNaN(b) THEN NaN
             ELSE IF IsInf(a) \/ IsInf(b)
             THEN (IF a.sg * b.sg = 0 THEN NaN ELSE Inf(a.sg * b.sg))
             ELSE RMul(a, b)
    [] op = "NDiv" ->
         LET a == x[1]
             b == x[2]
         IN  IF IsNaN(a) \/ IsNaN(b) THEN NaN
             ELSE IF IsInf(a)
             THEN (IF IsInf(b) THEN NaN ELSE Inf(IF b.sg < 0 THEN -a.sg ELSE a.sg))
             ELSE IF IsInf(b) THEN RZero
             ELSE IF b.sg = 0 THEN (IF a.sg = 0 THEN NaN ELSE Inf(a.sg))
             ELSE RDiv(a, b)
    [] op = "NAdd" ->
         LET a == x[1]
             b == x[2]
         IN  IF IsNaN(a) \/ IsNaN(b) THEN NaN
             ELSE IF IsInf(a) THEN (IF IsInf(b) /\ b.sg # a.sg THEN NaN ELSE a)
             ELSE IF IsInf(b) THEN b
             ELSE RAdd(a, b)

-----------------------------------------------------------------------------
(* binomial_proportion: the tail probability P(x1 <= X <= x2) of           *)
(* X ~ Binomial(N, p), by the recurrence v(k) = v(k-1) * q * (N+1-k) / k.  *)

\* 10**30, the threshold and divisor of the rescaling step
Rescale == [sg |-> 1, n |-> BPow(BNat(10), 30), d |-> <<1>>]

\* lines 671-673: tot += v, and s += v when x1 <= k <= x2
bp_accumulate(st, x1, x2) ==
  [st EXCEPT !.tot = RAdd(st.tot, st.v),
             !.s = IF st.k >= x1 /\ st.k <= x2 THEN RAdd(st.s, st.v) ELSE st.s]

\* the three divisions of lines 675-677
bp_divide(st, by) ==
  [st EXCEPT !.s = RDiv(st.s, by), !.tot = RDiv(st.tot, by),
             !.v = RDiv(st.v, by), !.rescales = @ + 1]

\* lines 674-677: the sums and the term are divided by 10**30 once tot
\* exceeds it
bp_rescale(st) == IF RGt(st.tot, Rescale) THEN bp_divide(st, Rescale) ELSE st

\* lines 678-679: k += 1 and v = v*q*(N+1-k)/k
bp_advance(st, N, q) ==
  [st EXCEPT !.k = st.k + 1,
             !.v = RDiv(RMul(RMul(st.v, q), RInt(N + 1 - (st.k + 1))),
                        RInt(st.k + 1))]

\* the while loop: st holds the locals k, v, s, tot and counts the rescalings
RECURSIVE binomial_proportion_loop(_, _, _, _, _)
binomial_proportion_loop(N, q, x1, x2, st) ==
  IF ~(st.k <= N) THEN st
  ELSE binomial_proportion_loop(N, q, x1, x2,
         bp_advance(bp_rescale(bp_accumulate(st, x1, x2)), N, q))

\* line 680: return s/tot
bp_return(st) ==
  IF st.tot.sg = 0
  THEN [exc |-> "ZeroDivisionError", val |-> RZero,
        iters |-> st.k, rescales |-> st.rescales]
  ELSE [exc |-> "none", val |-> RDiv(st.s, st.tot),
        iters |-> st.k, rescales |-> st.rescales]

\* the locals before the loop, lines 665-668
bp_locals == [k |-> 0, v |-> RInt(1), s |-> RZero, tot |-> RZero, rescales |-> 0]

\* the call's outcome: exc is "none" and val the returned float, or exc names
\* the exception raised; iters is the number of loop iterations run
binomial_proportion(N, p, x1, x2) ==
  IF p = RInt(1)
  THEN [exc |-> "ZeroDivisionError", val |-> RZero, iters |-> 0, rescales |-> 0]
  ELSE bp_return(binomial_proportion_loop(N, RDiv(p, RSub(RInt(1), p)), x1, x2,
                                          bp_locals))

-----------------------------------------------------------------------------
(* binomial_proportion_ci: the Clopper-Pearson interval by two bisections. *)
(* A frame holds the locals of one call and pc, the place reached.         *)

\* a local not assigned yet
Unset == [unset |-> TRUE]

\* alpha = 0.05, the only level the callers pass
Alpha == RFrac(1, 20)

\* p = alpha/2
HalfAlpha == RDiv(Alpha, RInt(2))

\* 10**-5, the bracket width at which a bisection stops
Tolerance == RFrac(1, 100000)

Midpoint(a, b) == RDiv(RAdd(a, b), RInt(2))

ci_frame(numerator, denominator) ==
  [pc |-> "call", numerator |-> numerator, denominator |-> denominator,
   p |-> Unset, ratio |-> Unset, v |-> Unset, vsL |-> Unset, vsH |-> Unset,
   interval_low |-> Unset, interval_high |-> Unset, exc |-> "none",
   lower_iters |-> 0, upper_iters |-> 0, last_p |-> Unset, last_iters |-> 0]

\* lines 706-708 and 722-724: the bracket [lo, hi] of a bisection and its
\* first midpoint
ci_bracket(f, lo, hi, pc) ==
  [f EXCEPT !.v = Midpoint(lo, hi), !.vsL = lo, !.vsH = hi, !.pc = pc]

\* lines 702-708: the ratio is kept, and the lower bound is 0 or bracketed
\* (ci_ratio_bisect: the same without the numerator == 0 shortcut of lines
\* 703-704)
ci_ratio_bisect(f, ratio) ==
  ci_bracket([f EXCEPT !.ratio = ratio], RZero, ratio, "lower_loop")
ci_ratio(f, ratio) ==
  IF f.numerator = 0
  THEN [f EXCEPT !.ratio = ratio, !.interval_low = RZero, !.pc = "upper_init"]
  ELSE ci_bracket([f EXCEPT !.ratio = ratio], RZero, ratio, "lower_loop")

\* lines 698-708: the ratio, and the lower bound's special case or bracket
ci_begin(f) ==
  IF f.denominator = 0
  THEN [f EXCEPT !.pc = "raise", !.exc = "ZeroDivisionError", !.p = HalfAlpha]
  ELSE ci_ratio([f EXCEPT !.p = HalfAlpha],
                RDiv(RInt(f.numerator), RInt(f.denominator)))

\* one pass of a bisection loop's body: narrow says whether the upper end of
\* the bracket moves to v
\* (ci_halve_jump: the same, but v jumps to the upper end instead of the
\* midpoint when the lower end moves)
ci_halve_jump(f, narrow) ==
  IF narrow
  THEN [f EXCEPT !.vsH = f.v, !.v = Midpoint(f.vsL, f.v)]
  ELSE [f EXCEPT !.vsL = f.v, !.v = f.vsH]
ci_halve(f, narrow) ==
  IF narrow
  THEN [f EXCEPT !.vsH = f.v, !.v = Midpoint(f.vsL, f.v)]
  ELSE [f EXCEPT !.vsL = f.v, !.v = Midpoint(f.v, f.vsH)]

\* the call of binomial_proportion in a loop's test returned r; below says
\* which comparison with p the loop makes
ci_tested(f, r, below) ==
  IF r.exc # "none" THEN [f EXCEPT !.pc = "raise", !.exc = r.exc]
  ELSE ci_halve(f, IF below THEN RLt(r.val, f.p) ELSE RGt(r.val, f.p))

\* the call is counted: the probability it was made with and its iterations
ci_counted(f, r, below) ==
  ci_tested([f EXCEPT !.last_p = f.v, !.last_iters = r.iters], r, below)

\* lines 710-717: one test of the lower while loop, and its body or its exit
ci_lower(f) ==
  IF RGt(RSub(f.vsH, f.vsL), Tolerance)
  THEN ci_counted([f EXCEPT !.lower_iters = @ + 1],
                  binomial_proportion(f.denominator, f.v, f.numerator, f.denominator),
                  FALSE)
  ELSE [f EXCEPT !.interval_low = f.v, !.pc = "upper_init"]

\* lines 719-724: the upper bound's special case or bracket
ci_upper_init(f) ==
  IF f.numerator = f.denominator
  THEN [f EXCEPT !.interval_high = RInt(1), !.pc = "return"]
  ELSE ci_bracket(f, f.ratio, RInt(1), "upper_loop")

\* lines 725-733: one test of the upper while loop, and its body or its exit
ci_upper(f) ==
  IF RGt(RSub(f.vsH, f.vsL), Tolerance)
  THEN ci_counted([f EXCEPT !.upper_iters = @ + 1],
                  binomial_proportion(f.denominator, f.v, 0, f.numerator),
                  TRUE)
  ELSE [f EXCEPT !.interval_high = f.v, !.pc = "return"]

ci_step(f) ==
  CASE f.pc = "call"       -> ci_begin(f)
    [] f.pc = "lower_loop" -> ci_lower(f)
    [] f.pc = "upper_init" -> ci_upper_init(f)
    [] f.pc = "upper_loop" -> ci_upper(f)

RECURSIVE ci_run(_)
ci_run(f) == IF f.pc \in {"return", "raise"} THEN f ELSE ci_run(ci_step(f))

\* the whole call: the frame it ends in (pc "return" with interval_low and
\* interval_high, or pc "raise" with exc)
binomial_proportion_ci(numerator, denominator) ==
  ci_run(ci_frame(numerator, denominator))

-----------------------------------------------------------------------------
(* get_op_stats: the confusion-matrix statistics of M predictions.         *)

\* the elements of a set of integers in ascending order
RECURSIVE Sorted(_)
Sorted(S) ==
  IF S = {} THEN <<>>
  ELSE LET m == CHOOSE x \in S : \A y \in S : x <= y
       IN  <<m>> \o Sorted(S \ {m})

\* vec[mask]: the entries of vec where the boolean mask holds, in order
RECURSIVE Masked(_, _)
Masked(vec, mask) ==
  IF vec = <<>> THEN <<>>
  ELSE (IF Head(mask) THEN <<Head(vec)>> ELSE <<>>) \o Masked(Tail(vec), Tail(mask))

\* sklearn.metrics.confusion_matrix(y_true, y_pred): one row and one column
\* per label that occurs in y_true or y_pred, labels ascending; entry [r][c]
\* counts the samples of true label r predicted as label c
\* (confusion_matrix_transposed: rows and columns exchanged)
confusion_matrix_transposed(y_true, y_pred) ==
  LET labels == Sorted({y_true[i] : i \in 1..Len(y_true)}
                       \cup {y_pred[i] : i \in 1..Len(y_pred)})
  IN  [r \in 1..Len(labels) |-> [c \in 1..Len(labels) |->
        Cardinality({i \in 1..Len(y_true) :
                       y_true[i] = labels[c] /\ y_pred[i] = labels[r]})]]
confusion_matrix(y_true, y_pred) ==
  LET labels == Sorted({y_true[i] : i \in 1..Len(y_true)}
                       \cup {y_pred[i] : i \in 1..Len(y_pred)})
  IN  [r \in 1..Len(labels) |-> [c \in 1..Len(labels) |->
        Cardinality({i \in 1..Len(y_true) :
                       y_true[i] = labels[r] /\ y_pred[i] = labels[c]})]]

stats_names == <<"TN", "FP", "FN", "TP", "Sens", "Spec", "PPV", "NPV", "F1", "NTP", "NFP">>

\* 100.0 * num / den
Percentage(num, den) == NDiv(NMul(RInt(100), num), den)

\* lines 129-135: F1, NTP and NFP from the rates
stats_derived(TN, FP, FN, TP, Sens, Spcf, PPV, NPV, pos) ==
  <<TN, FP, FN, TP, Sens, Spcf, PPV, NPV,
    NDiv(NMul(RInt(2), NMul(PPV, Sens)), NAdd(PPV, Sens)),
    NMul(pos, NDiv(PPV, RInt(100))),
    NMul(pos, NSub(RInt(1), NDiv(PPV, RInt(100))))>>

\* lines 123-135: the rates, and 100.0 * (TP+FP)/(TP+FP+TN+FN)
stats_rates(TN, FP, FN, TP) ==
  stats_derived(TN, FP, FN, TP,
    Percentage(TP, NAdd(TP, FN)), Percentage(TN, NAdd(TN, FP)),
    Percentage(TP, NAdd(TP, FP)), Percentage(TN, NAdd(TN, FN)),
    Percentage(NAdd(TP, FP), NAdd(NAdd(NAdd(TP, FP), TN), FN)))

\* lines 117-144: one row of stats_all from a confusion matrix; reading
\* cm[0,1], cm[1,0] or cm[1,1] of a smaller matrix raises IndexError
stats_row(cm) ==
  IF Len(cm) < 2 THEN [exc |-> "IndexError", row |-> <<>>]
  ELSE [exc |-> "none",
        row |-> stats_rates(RInt(cm[1][1]), RInt(cm[1][2]),
                            RInt(cm[2][1]), RInt(cm[2][2]))]

\* lines 97-100: a single numpy target is repeated once per prediction
\* (broadcast_short: it is kept as the target of the first prediction only)
broadcast_short(y_all, M) ==
  IF y_all.type = "numpy.ndarray" THEN <<y_all.val>> ELSE y_all.val
broadcast(y_all, M) ==
  IF y_all.type = "numpy.ndarray" THEN [i \in 1..M |-> y_all.val] ELSE y_all.val

\* lines 111-115: the confusion matrix of prediction i, within its subgroup
\* when idx is given
row_matrix(yhat, y, idx, i) ==
  IF idx.given THEN confusion_matrix(Masked(y, idx.val[i]), Masked(yhat, idx.val[i]))
  ELSE confusion_matrix(y, yhat)

\* the table of the rows, or the exception of the first row that raised
stats_table(rows) ==
  LET bad == {i \in 1..Len(rows) : rows[i].exc # "none"}
  IN  IF bad = {}
      THEN [exc |-> "none", stats_all |-> [i \in 1..Len(rows) |-> rows[i].row]]
      ELSE [exc |-> rows[CHOOSE i \in bad : \A j \in bad : i <= j].exc,
            stats_all |-> <<>>]

\* the loop of lines 111-144 over the predictions and their targets ys
stats_rows(yhat_all, ys, idx) ==
  [i \in 1..Len(yhat_all) |->
     IF i > Len(ys) THEN [exc |-> "IndexError", row |-> <<>>]
     ELSE stats_row(row_matrix(yhat_all[i], ys[i], idx, i))]

\* the whole call: exc is "none" and stats_all the M x 11 table, or exc names
\* the exception the first failing row raises
get_op_stats(yhat_all, y_all, idx) ==
  stats_table(stats_rows(yhat_all, broadcast(y_all, Len(yhat_all)), idx))

-----------------------------------------------------------------------------
(* print_op_stats and print_stats_to_file: the report of a stats table.    *)
(* A report is a sequence of lines and a line a sequence of tab-separated  *)
(* cells; a cell is a string or a formatted number.                        *)

\* a float in fixed-point notation with the given number of decimals, as
\* '%10.0f', '{:5.0f}', '%10.2f' and '{:2.2f}' render it: "nan", "inf" or the
\* sign and the magnitude in units of 10^-decimals, rounded half to even
Fixed(x, decimals) ==
  IF IsNaN(x) THEN [text |-> "nan"]
  ELSE IF IsInf(x) THEN [text |-> IF x.sg < 0 THEN "-inf" ELSE "inf"]
  ELSE LET t     == BInt(x.n) * 10 ^ decimals
           d     == BInt(x.d)
           whole == t \div d
           rem   == t % d
           up    == 2 * rem > d \/ (2 * rem = d /\ whole % 2 = 1)
       IN  [sg |-> x.sg, units |-> whole + (IF up THEN 1 ELSE 0),
            decimals |-> decimals]

\* '{:2.2f} [{:2.2f}, {:2.2f}]'.format(value, low, high)
WithInterval(value, low, high) ==
  [value |-> Fixed(value, 2), low |-> Fixed(low, 2), high |-> Fixed(high, 2)]

\* np.zeros([P, 11, 2])
ci_zeros(P) == [i \in 1..P |-> [n \in 1..11 |-> <<RZero, RZero>>]]

\* float(x) of a count held in the stats table
Count(x) == x.sg * BInt(x.n)

\* the arguments of the interval call that fills ci[i, n, :], n in 4..7
ci_args(row, n) ==
  LET TN == Count(row[1])
      FP == Count(row[2])
      FN == Count(row[3])
      TP == Count(row[4])
  IN  CASE n = 4 -> <<TP, TP + FN>>
        [] n = 5 -> <<TN, TN + FP>>
        [] n = 6 -> <<TP, TP + FP>>
        [] n = 7 -> <<TN, TN + FN>>

\* the lines print_op_stats prints once the intervals are computed; n is the
\* code's 0-based index of a statistic
op_stats_lines(stats_all, yhat_names, cis) ==
  LET M == Len(yhat_names)
      cell(i, n) ==
        IF n < 4 THEN Fixed(stats_all[i][n + 1], 0)
        ELSE IF n < 8
        THEN WithInterval(stats_all[i][n + 1], cis[i][n + 1][1], cis[i][n + 1][2])
        ELSE Fixed(stats_all[i][n + 1], 2)
  IN  <<  <<"Metric">>, <<"">>, <<"">> \o yhat_names  >>
      \o [n1 \in 1..Len(stats_names) |->
            <<stats_names[n1]>> \o [i \in 1..M |-> cell(i, n1 - 1)]]

file_stats_names ==
  <<"TN", "FP", "FN", "TP", "N", "Sens", "Spec", "PPV", "NPV", "F1", "NTP", "NFP">>

\* the cells print_stats_to_file writes for row i before the first call of
\* f.write with three arguments (line 232, n = 5) raises TypeError
file_row_prefix(stats_all, yhat_names, i) ==
  <<yhat_names[i]>> \o [n1 \in 1..5 |-> Fixed(stats_all[i][n1], 0)]

\* lines 219-238: what the writes leave in the file and how they end; lines
\* holds the terminated lines and partial the cells after the last newline
file_writes(stats_all, yhat_names) ==
  LET header == <<"Subgroup">> \o file_stats_names
  IN  IF Len(yhat_names) = 0
      THEN [exc |-> "none", lines |-> <<header>>, partial |-> <<>>, open |-> FALSE]
      ELSE [exc |-> "TypeError", lines |-> <<header>>,
            partial |-> file_row_prefix(stats_all, yhat_names, 1), open |-> TRUE]

\* ---------------------------------------------------------------------------
\* cronbach_alpha and cronbach_alpha_bootstrap

RECURSIVE SumOf(_)
SumOf(s) == IF s = <<>> THEN 0 ELSE s[1] + SumOf(Tail(s))

Squares(x) == [i \in 1..Len(x) |-> x[i] * x[i]]

\* x.var(ddof=ddof): sum((x - x.mean())**2) / (N - ddof), which is
\* (N*sum(x**2) - sum(x)**2) / (N*(N - ddof)); 0/0, hence nan, when N = ddof
var(x, ddof) ==
  NDiv(RInt(Len(x) * SumOf(Squares(x)) - SumOf(x) * SumOf(x)),
       RInt(Len(x) * (Len(x) - ddof)))

\* X.var(axis=1, ddof=1).sum()
RECURSIVE var_rows_sum(_)
var_rows_sum(X) ==
  IF X = <<>> THEN RZero ELSE NAdd(var(X[1], 1), var_rows_sum(Tail(X)))

\* X.sum(axis=0)
sum_axis0(X) ==
  IF X = <<>> THEN <<>>
  ELSE [c \in 1..Len(X[1]) |-> SumOf([r \in 1..Len(X) |-> X[r][c]])]

cronbach_alpha(X) ==
  NMul(NDiv(RInt(Len(X)), RInt(Len(X) - 1)),
       NSub(RInt(1), NDiv(var_rows_sum(X), var(sum_axis0(X), 1))))

\* X[:,idx], idx the zero-based column indices drawn by np.random.randint
Resampled(X, idx) ==
  [r \in 1..Len(X) |-> [c \in 1..Len(idx) |-> X[r][idx[c] + 1]]]

\* the order of floats, nan apart
NLe(a, b) ==
  IF IsInf(a) THEN a.sg < 0 \/ (IsInf(b) /\ b.sg > 0)
  ELSE IF IsInf(b) THEN b.sg > 0
  ELSE RLe(a, b)

RECURSIVE Inserted(_, _)
Inserted(s, a) ==
  IF s = <<>> THEN <<a>>
  ELSE IF NLe(a, s[1]) THEN <<a>> \o s
  ELSE <<s[1]>> \o Inserted(Tail(s), a)

RECURSIVE SortedFloats(_)
SortedFloats(s) ==
  IF s = <<>> THEN <<>> ELSE Inserted(SortedFloats(Tail(s)), s[1])

\* a + (b - a)*t, numpy's linear interpolation between neighbours
lerp(a, b, t) == NAdd(a, NMul(NSub(b, a), t))

\* np.percentile(a, q) of a non-empty array: nan when a holds a nan, else the
\* linear interpolation at position q/100*(len(a) - 1) of the sorted array
percentile_at(sorted, q) ==
  LET pos   == q * (Len(sorted) - 1)
      below == pos \div 100
      above == IF below + 1 < Len(sorted) THEN below + 1 ELSE below
  IN  lerp(sorted[below + 1], sorted[above + 1], RFrac(pos % 100, 100))

percentile(a, q) ==
  IF \E b \in 1..Len(a) : IsNaN(a[b]) THEN NaN
  ELSE percentile_at(SortedFloats(a), q)

\* the loop body of cronbach_alpha_bootstrap: alpha[b] = cronbach_alpha(X[:,idx])
bootstrap_alphas(X, draws) ==
  [b \in 1..Len(draws) |-> cronbach_alpha(Resampled(X, draws[b]))]

\* ci = np.percentile(alpha, [5,95]); alpha = cronbach_alpha(X); return alpha, ci
bootstrap_return(X, alpha) ==
  [alpha |-> cronbach_alpha(X),
   ci    |-> <<percentile(alpha, 5), percentile(alpha, 95)>>]

\* cronbach_alpha_bootstrap(X, B) when np.random.randint returns draws[b] in
\* iteration b
cronbach_alpha_bootstrap(X, draws) ==
  bootstrap_return(X, Explicit(bootstrap_alphas(X, draws)))

\* ---------------------------------------------------------------------------
\* print_auc_table and print_auc_table_to_file

TableNames == <<"sirs", "qsofa", "sofa">>

NameIndex(name) == CHOOSE i \in 1..Len(TableNames) : TableNames[i] = name

\* ru.calc_auc(preds[name], y, with_ci=True, alpha=0.05): the AUROC and its
\* interval, one of three results by the prediction and the data set env
AucResults ==
  << [auc |-> RFrac(1, 2), ci |-> <<RFrac(1, 4), RFrac(3, 4)>>],
     [auc |-> RFrac(3, 4), ci |-> <<RFrac(1, 2), RInt(1)>>],
     [auc |-> RInt(1), ci |-> <<RInt(1), RInt(1)>>] >>

calc_auc(env, name) == AucResults[((NameIndex(name) + env) % 3) + 1]

\* ru.test_auroc(preds[a], preds[b], y)[0]: a p-value below 0.001, equal to
\* 0.001, above it, or nan, by the ordered pair and the data set env
PValues == <<RFrac(1, 2000), RFrac(1, 1000), RFrac(1, 2), NaN>>

test_auroc(env, a, b) ==
  PValues[((NameIndex(a) + 2 * NameIndex(b) + env) % 4) + 1]

\* '{:20s}'.format('') on the console, '{}'.format('') in the file
Blank(width) == [by |-> "blank", pad |-> width]

\* '{:0.3f} [{:0.3f}, {:0.3f}]'.format(value, ci[0], ci[1])
WithInterval3(by, value, interval) ==
  [by |-> by, value |-> Fixed(value, 3), low |-> Fixed(interval[1], 3),
   high |-> Fixed(interval[2], 3)]

Threshold == RFrac(1, 1000)

\* if pval > 0.001: '{:0.3f}' else '< 0.001'; a comparison with nan is False
pvalue_cell(pval, width) ==
  IF ~IsNaN(pval) /\ RGt(pval, Threshold)
  THEN [by |-> "test_auroc", text |-> Fixed(pval, 3), pad |-> width]
  ELSE [by |-> "test_auroc", text |-> "< 0.001", pad |-> width]

\* print_demographics: if pvalue < 0.001: '< 0.001' else '{:0.3f}'
demographics_pvalue(pvalue) ==
  IF ~IsNaN(pvalue) /\ RLt(pvalue, Threshold) THEN "< 0.001"
  ELSE Fixed(pvalue, 3)

auc_cell(env, name) ==
  WithInterval3("calc_auc", calc_auc(env, name).auc, calc_auc(env, name).ci)

\* cronbach_alpha_bootstrap(np.row_stack([preds[ppred],preds[qpred]]),B=2000)
alpha_cell(result) ==
  WithInterval3("cronbach_alpha_bootstrap", result.alpha, result.ci)

\* the cell of row p and column q that a cell with the column test q > 1 prints
table_cell_from_second(preds, header, env, draw, p, q) ==
  IF header[p] \notin DOMAIN preds THEN Blank(20)
  ELSE IF p = q THEN auc_cell(env, header[p])
  ELSE IF header[q] \notin DOMAIN preds THEN Blank(20)
  ELSE IF q > 1
  THEN alpha_cell(cronbach_alpha_bootstrap(<<preds[header[p]], preds[header[q]]>>,
                                           draw))
  ELSE pvalue_cell(test_auroc(env, header[p], header[q]), 15)

\* the cell of row p and column q that print_auc_table prints
table_cell(preds, header, env, draw, p, q) ==
  IF header[p] \notin DOMAIN preds THEN Blank(20)
  ELSE IF p = q THEN auc_cell(env, header[p])
  ELSE IF header[q] \notin DOMAIN preds THEN Blank(20)
  ELSE IF q > p
  THEN alpha_cell(cronbach_alpha_bootstrap(<<preds[header[p]], preds[header[q]]>>,
                                           draw))
  ELSE pvalue_cell(test_auroc(env, header[p], header[q]), 15)

\* the cell of row p and column q that print_auc_table_to_file writes
file_cell(preds, header, env, p, q) ==
  IF header[p] \notin DOMAIN preds THEN Blank(0)
  ELSE IF p = q THEN auc_cell(env, header[p])
  ELSE IF q > p THEN Blank(0)
  ELSE IF header[q] \notin DOMAIN preds THEN Blank(0)
  ELSE pvalue_cell(test_auroc(env, header[p], header[q]), 0)

\* a line with one more cell
WithCell(lines, cell) ==
  [lines EXCEPT ![Len(lines)] = Append(@, cell)]

\* the position after cell (p, q) of a table of P names, and the lines once
\* the row has been ended and the next begun
table_advance(t, lines) ==
  IF t.q < Len(t.preds_header)
  THEN [t EXCEPT !.q = @ + 1, !.out = lines]
  ELSE IF t.p < Len(t.preds_header)
  THEN [t EXCEPT !.p = @ + 1, !.q = 1,
                 !.out = Append(lines, <<t.preds_header[t.p + 1]>>)]
  ELSE [t EXCEPT !.pc = "end", !.out = lines]

-----------------------------------------------------------------------------
VARIABLES bp, ci, ops, rep, cr, tab, fit, db

vars == <<bp, ci, ops, rep, cr, tab, fit, db>>

\* bounds of the inputs explored
MaxN == 3
MaxCount == 3
MaxPreds == 2
MaxLen == 4
MaxCells == 4
MaxMaskLen == 3
MaxReportLen == 2
MaxObs == 3
MaxB == 2
MaxCovariates == 3
MaxTableB == 1

Idle == [pc |-> "idle"]

\* cronbach_alpha_bootstrap, the AUROC tables, calc_predictions and get_data
\* are not running
LaterIdle == cr = Idle /\ tab = Idle /\ fit = Idle /\ db = Idle

\* the probabilities explored: 0, 1/4, 1/2, 3/4, 1 and the largest float below 1
NearOne ==
  LET two53 == BPow(BNat(2), 53)
  IN  [sg |-> 1, n |-> BSub(two53, <<1>>), d |-> two53]

Probability(i) ==
  CASE i = 1 -> RInt(0)
    [] i = 2 -> RFrac(1, 4)
    [] i = 3 -> RFrac(1, 2)
    [] i = 4 -> RFrac(3, 4)
    [] i = 5 -> RInt(1)
    [] i = 6 -> NearOne

InitBP ==
  /\ \E N \in 0..MaxN, i \in 1..6 :
       \E x1 \in 0..N : \E x2 \in x1..N :
         bp = [pc |-> "call", N |-> N, p |-> Probability(i), x1 |-> x1, x2 |-> x2]
  /\ ci = Idle
  /\ ops = Idle
  /\ rep = Idle
  /\ LaterIdle

BP_Call ==
  /\ bp.pc = "call"
  /\ bp' = [pc |-> "done", N |-> bp.N, p |-> bp.p, x1 |-> bp.x1, x2 |-> bp.x2,
            ret |-> binomial_proportion(bp.N, bp.p, bp.x1, bp.x2)]
  /\ UNCHANGED <<cr, tab, fit, db, ci, ops, rep>>

NextBP == BP_Call

SpecBP == InitBP /\ [][NextBP]_vars

InitCI ==
  /\ \E numerator \in -1..(MaxCount + 1), denominator \in -1..MaxCount :
       ci = ci_frame(numerator, denominator)
  /\ bp = Idle
  /\ ops = Idle
  /\ rep = Idle
  /\ LaterIdle

CI_Begin == ci.pc = "call" /\ ci' = ci_begin(ci) /\ UNCHANGED <<cr, tab, fit, db, bp, ops, rep>>

CI_Lower == ci.pc = "lower_loop" /\ ci' = ci_lower(ci) /\ UNCHANGED <<cr, tab, fit, db, bp, ops, rep>>

CI_UpperInit == ci.pc = "upper_init" /\ ci' = ci_upper_init(ci) /\ UNCHANGED <<cr, tab, fit, db, bp, ops, rep>>

CI_Upper == ci.pc = "upper_loop" /\ ci' = ci_upper(ci) /\ UNCHANGED <<cr, tab, fit, db, bp, ops, rep>>

NextCI == CI_Begin \/ CI_Lower \/ CI_UpperInit \/ CI_Upper

SpecCI == InitCI /\ [][NextCI]_vars

\* The interpreter runs the call to its end: a step that can be taken is
\* taken. This is WF_vars(NextCI) with ENABLED <<NextCI>>_vars written out:
\* a step is possible, and changes ci, exactly when the call has not ended.
CIEnded == ci.pc \in {"return", "raise"}
SpecCIFair == SpecCI /\ ([]<>CIEnded \/ []<><<NextCI>>_vars)
\* the inputs of get_op_stats explored: M predictions of N binary labels, a
\* single numpy target or a list of M targets, and no idx or M boolean masks
Shapes == {s \in (1..MaxPreds) \X (1..MaxLen) : s[1] * s[2] <= MaxCells}
Vectors(N) == [1..N -> {0, 1}]
Masks(N) == [1..N -> BOOLEAN]
NoIdx == [given |-> FALSE, val |-> <<>>]

InitStats ==
  /\ \E s \in Shapes :
       \E yhat_all \in [1..s[1] -> Vectors(s[2])] :
         \E y_all \in [type : {"numpy.ndarray"}, val : Vectors(s[2])]
                      \cup [type : {"list"}, val : [1..s[1] -> Vectors(s[2])]] :
           \E idx \in {NoIdx} \cup (IF s[2] <= MaxMaskLen
                                    THEN [given : {TRUE}, val : [1..s[1] -> Masks(s[2])]]
                                    ELSE {}) :
             ops = [pc |-> "call", yhat_all |-> yhat_all, y_all |-> y_all, idx |-> idx]
  /\ bp = Idle
  /\ ci = Idle
  /\ rep = Idle
  /\ LaterIdle

GetOpStats ==
  /\ ops.pc = "call"
  /\ ops' = [pc |-> "done", yhat_all |-> ops.yhat_all, y_all |-> ops.y_all,
             idx |-> ops.idx,
             ret |-> get_op_stats(ops.yhat_all, ops.y_all, ops.idx)]
  /\ UNCHANGED <<cr, tab, fit, db, bp, ci, rep>>

NextStats == GetOpStats

SpecStats == InitStats /\ [][NextStats]_vars

\* the reports explored: the table get_op_stats returns for up to MaxPreds
\* predictions of up to MaxReportLen labels against one numpy target, and as
\* many prediction names
Names == <<"sirs", "qsofa", "sofa", "lods", "mlods">>

ReportShapes ==
  {s \in (0..MaxPreds) \X (1..MaxReportLen) : s[1] * s[2] <= MaxCells}

InitReport ==
  /\ \E s \in ReportShapes, fn \in {"print_op_stats", "print_stats_to_file"} :
       \E yhat_all \in [1..s[1] -> Vectors(s[2])], y \in Vectors(s[2]) :
         LET r == get_op_stats(yhat_all, [type |-> "numpy.ndarray", val |-> y], NoIdx)
         IN  /\ r.exc = "none"
             /\ rep = [pc |-> "call", fn |-> fn, stats_all |-> r.stats_all,
                       yhat_names |-> SubSeq(Names, 1, s[1]),
                       ci |-> <<>>, i |-> 0, n |-> 0, exc |-> "none",
                       out |-> <<>>,
                       file |-> [open |-> FALSE, lines |-> <<>>, partial |-> <<>>]]
  /\ bp = Idle
  /\ ci = Idle
  /\ ops = Idle
  /\ LaterIdle

\* lines 150-153 and 202-207: the file is opened (and truncated) by
\* print_stats_to_file, and ci is allocated
Report_Call ==
  /\ rep.pc = "call"
  /\ rep' = [rep EXCEPT !.pc = "ci_loop", !.ci = ci_zeros(Len(rep.stats_all)),
                        !.i = 1, !.n = 4,
                        !.file.open = (rep.fn = "print_stats_to_file")]
  /\ UNCHANGED <<cr, tab, fit, db, bp, ci, ops>>

\* lines 162-165 and 214-217: the next call of binomial_proportion_ci
Report_CICall ==
  /\ rep.pc = "ci_loop"
  /\ rep.i <= Len(rep.stats_all)
  /\ ci.pc = "idle"
  /\ LET a == ci_args(rep.stats_all[rep.i], rep.n)
     IN  ci' = ci_frame(a[1], a[2])
  /\ rep' = [rep EXCEPT !.pc = "ci_wait"]
  /\ UNCHANGED <<cr, tab, fit, db, bp, ops>>

\* the call returned: its pair is stored in ci[i, n, :]
Report_CIReturn ==
  /\ rep.pc = "ci_wait"
  /\ ci.pc = "return"
  /\ rep' = [rep EXCEPT !.pc = "ci_loop",
                        !.ci[rep.i][rep.n + 1] = <<ci.interval_low, ci.interval_high>>,
                        !.n = IF rep.n = 7 THEN 4 ELSE rep.n + 1,
                        !.i = IF rep.n = 7 THEN rep.i + 1 ELSE rep.i]
  /\ ci' = Idle
  /\ UNCHANGED <<cr, tab, fit, db, bp, ops>>

\* the call raised: nothing catches the exception, which leaves the report
Report_CIRaise ==
  /\ rep.pc = "ci_wait"
  /\ ci.pc = "raise"
  /\ rep' = [rep EXCEPT !.pc = "raise", !.exc = ci.exc]
  /\ ci' = Idle
  /\ UNCHANGED <<cr, tab, fit, db, bp, ops>>

\* lines 167-198: print_op_stats prints the table and returns
Report_Print ==
  /\ rep.pc = "ci_loop"
  /\ rep.i > Len(rep.stats_all)
  /\ rep.fn = "print_op_stats"
  /\ rep' = [rep EXCEPT !.pc = "return",
                        !.out = op_stats_lines(rep.stats_all, rep.yhat_names, rep.ci)]
  /\ UNCHANGED <<cr, tab, fit, db, bp, ci, ops>>

\* lines 219-238: print_stats_to_file writes the header and the rows, and
\* closes the file if it gets that far
Report_Write ==
  /\ rep.pc = "ci_loop"
  /\ rep.i > Len(rep.stats_all)
  /\ rep.fn = "print_stats_to_file"
  /\ LET w == file_writes(rep.stats_all, rep.yhat_names)
     IN  rep' = [rep EXCEPT !.pc = IF w.exc = "none" THEN "return" ELSE "raise",
                            !.exc = w.exc,
                            !.file = [open |-> w.open, lines |-> w.lines,
                                      partial |-> w.partial]]
  /\ UNCHANGED <<cr, tab, fit, db, bp, ci, ops>>

NextReport ==
  \/ Report_Call
  \/ Report_CICall
  \/ CI_Begin
  \/ CI_Lower
  \/ CI_UpperInit
  \/ CI_Upper
  \/ Report_CIReturn
  \/ Report_CIRaise
  \/ Report_Print
  \/ Report_Write

SpecReport == InitReport /\ [][NextReport]_vars

-----------------------------------------------------------------------------
(* Properties of binomial_proportion.                                      *)

RECURSIVE Factorial(_)
Factorial(n) == IF n = 0 THEN 1 ELSE n * Factorial(n - 1)

Choose(N, k) == Factorial(N) \div (Factorial(k) * Factorial(N - k))

RECURSIVE RPow(_, _)
RPow(a, k) == IF k = 0 THEN RInt(1) ELSE RMul(a, RPow(a, k - 1))

\* ---------------------------------------------------------------------------
\* cronbach_alpha_bootstrap(X, B), one loop iteration per step

\* two rows of N observations with values 0 and 1
Matrices ==
  UNION {{<<x1, x2>> : x1 \in [1..N -> 0..1], x2 \in [1..N -> 0..1]} : N \in 1..MaxObs}

InitCronbach ==
  /\ \E X \in Matrices, B \in 1..MaxB :
       cr = [pc |-> "loop", X |-> X, B |-> B, alpha |-> <<>>, ret |-> Unset]
  /\ bp = Idle
  /\ ci = Idle
  /\ ops = Idle
  /\ rep = Idle
  /\ tab = Idle
  /\ fit = Idle
  /\ db = Idle

\* idx = np.random.randint(0, high=N, size=N); alpha[b] = cronbach_alpha(X[:,idx])
Cronbach_Resample ==
  /\ cr.pc = "loop"
  /\ Len(cr.alpha) < cr.B
  /\ \E idx \in [1..Len(cr.X[1]) -> 0..(Len(cr.X[1]) - 1)] :
       cr' = [cr EXCEPT !.alpha = Append(@, cronbach_alpha(Resampled(cr.X, idx)))]
  /\ UNCHANGED <<bp, ci, ops, rep, tab, fit, db>>

Cronbach_Return ==
  /\ cr.pc = "loop"
  /\ Len(cr.alpha) = cr.B
  /\ cr' = [cr EXCEPT !.pc = "return", !.ret = bootstrap_return(cr.X, cr.alpha)]
  /\ UNCHANGED <<bp, ci, ops, rep, tab, fit, db>>

NextCronbach == Cronbach_Resample \/ Cronbach_Return

SpecCronbach == InitCronbach /\ [][NextCronbach]_vars

\* ---------------------------------------------------------------------------
\* calc_predictions(df, preds_header, target_header, model), one call of the
\* external fitting process per step

Covariates == {"sirs", "qsofa", "sofa"}

\* the orders of distinct covariates of at most MaxCovariates names
RECURSIVE Orders(_)
Orders(k) ==
  IF k = 0 THEN {<<>>}
  ELSE Orders(k - 1) \cup
       {Append(h, c) : h \in {g \in Orders(k - 1) : Len(g) = k - 1},
                       c \in Covariates}

Headers == {h \in Orders(MaxCovariates) :
              \A i \in 1..Len(h) : \A j \in 1..Len(h) : i # j => h[i] # h[j]}

Models == {"None", "mfp_baseline", "logreg", "mfp", "other"}

\* the exit statuses subprocess.call may return
ExitStatuses == {0, 1}

\* pd.read_csv(fn_out).values[:,0] after the process fitted on these arguments
FromCsv(args) == [by |-> "Rscript", args |-> args]

\* print('RScript returned error status {}.'.format(err))
ErrorStatusLine(err) == [text |-> "RScript returned error status", err |-> err]

\* a mapping with one more key
Assigned(preds, key, value) ==
  [k \in DOMAIN preds \cup {key} |-> IF k = key THEN value ELSE preds[k]]

\* the whole mapping built by the loops of the branches None and 'logreg'
AllOf(header, by) ==
  [k \in {header[i] : i \in 1..Len(header)} |-> [by |-> by, args |-> <<k>>]]

EmptyDict == [k \in {} |-> Unset]

InitPredictions ==
  /\ \E header \in Headers, model \in Models :
       fit = [pc |-> "call", model |-> model, preds_header |-> header, p |-> 1,
              preds |-> EmptyDict, errs |-> <<>>, out |-> <<>>,
              exc |-> "none", ret |-> Unset]
  /\ bp = Idle
  /\ ci = Idle
  /\ ops = Idle
  /\ rep = Idle
  /\ cr = Idle
  /\ tab = Idle
  /\ db = Idle

\* the branches that call no process
Predictions_Direct ==
  /\ fit.pc = "call"
  /\ fit.model \in {"None", "logreg", "other"}
  /\ fit' = CASE fit.model = "None" ->
                   [fit EXCEPT !.pc = "return",
                               !.ret = AllOf(fit.preds_header, "df")]
              [] fit.model = "logreg" ->
                   [fit EXCEPT !.pc = "return",
                               !.ret = AllOf(fit.preds_header, "logit")]
              [] fit.model = "other" ->
                   [fit EXCEPT !.pc = "return",
                               !.out = <<[text |-> "Unsure what means", model |-> fit.model]>>,
                               !.ret = [none |-> TRUE]]
  /\ UNCHANGED <<bp, ci, ops, rep, cr, tab, db>>

\* the branch 'mfp_baseline': pred is bound only when the process returned 0
Predictions_Baseline ==
  /\ fit.pc = "call"
  /\ fit.model = "mfp_baseline"
  /\ \E err \in ExitStatuses :
       fit' = IF err # 0
              THEN [fit EXCEPT !.pc = "raise", !.errs = <<err>>,
                               !.out = <<ErrorStatusLine(err)>>,
                               !.exc = "UnboundLocalError"]
              ELSE [fit EXCEPT !.pc = "return", !.errs = <<err>>,
                               !.ret = FromCsv(<<>>)]
  /\ UNCHANGED <<bp, ci, ops, rep, cr, tab, db>>

\* the branch 'mfp': preds = dict(), then the loop
Predictions_MfpBegin ==
  /\ fit.pc = "call"
  /\ fit.model = "mfp"
  /\ fit' = [fit EXCEPT !.pc = "loop"]
  /\ UNCHANGED <<bp, ci, ops, rep, cr, tab, db>>

\* one iteration of the loop of 'mfp'
Predictions_MfpFit ==
  /\ fit.pc = "loop"
  /\ fit.p <= Len(fit.preds_header)
  /\ \E err \in ExitStatuses :
       fit' = IF err # 0
              THEN [fit EXCEPT !.p = @ + 1, !.errs = Append(@, err),
                               !.out = Append(@, ErrorStatusLine(err))]
              ELSE [fit EXCEPT !.p = @ + 1, !.errs = Append(@, err),
                               !.preds = Assigned(@, fit.preds_header[fit.p],
                                                  FromCsv(<<fit.preds_header[fit.p]>>))]
  /\ UNCHANGED <<bp, ci, ops, rep, cr, tab, db>>

Predictions_MfpReturn ==
  /\ fit.pc = "loop"
  /\ fit.p > Len(fit.preds_header)
  /\ fit' = [fit EXCEPT !.pc = "return", !.ret = fit.preds]
  /\ UNCHANGED <<bp, ci, ops, rep, cr, tab, db>>

NextPredictions ==
  \/ Predictions_Direct
  \/ Predictions_Baseline
  \/ Predictions_MfpBegin
  \/ Predictions_MfpFit
  \/ Predictions_MfpReturn

SpecPredictions == InitPredictions /\ [][NextPredictions]_vars

\* ---------------------------------------------------------------------------
\* get_data(exclusions), one statement of the try statement per step

\* the exclusions passed: None, or the text that follows WHERE
Exclusions == {"None", "adult = 1", "adult = 1 and icustay_num = 1"}

\* what psycopg2.connect does: returns a connection, or raises the
\* OperationalError the code catches, or another psycopg2 error
Servers == {"up", "down", "InterfaceError"}

\* what pd.read_sql_query does: returns the table, or raises DatabaseError
\* with or without the text 'relation "mimiciii.sepsis3" does not exist'
Relations == {"exists", "missing", "unreadable"}

\* the query string built before the try statement
QueryOf(exclusions) ==
  IF exclusions = "None"
  THEN <<"select * from ", "mimiciii", ".sepsis3 order by icustay_id">>
  ELSE <<"select * from ", "mimiciii", ".sepsis3 ", "where ", exclusions,
         " order by icustay_id">>

InitData ==
  /\ \E e \in Exclusions, server \in Servers, relation \in Relations :
       db = [pc |-> "try", query |-> QueryOf(e), server |-> server,
             relation |-> relation, con |-> "unbound", closes |-> 0,
             df |-> "unbound", pending |-> "none", raised |-> "none",
             exc |-> "none", out |-> <<>>]
  /\ bp = Idle
  /\ ci = Idle
  /\ ops = Idle
  /\ rep = Idle
  /\ cr = Idle
  /\ tab = Idle
  /\ fit = Idle

\* con = psycopg2.connect(dbname=dbname, user=sqluser)
Data_Connect ==
  /\ db.pc = "try"
  /\ db' = CASE db.server = "up" -> [db EXCEPT !.pc = "query", !.con = "open"]
             [] db.server = "down" ->
                  [db EXCEPT !.pc = "except", !.pending = "OperationalError",
                             !.raised = "OperationalError"]
             [] db.server = "InterfaceError" ->
                  [db EXCEPT !.pc = "finally", !.pending = "InterfaceError",
                             !.raised = "InterfaceError"]
  /\ UNCHANGED <<bp, ci, ops, rep, cr, tab, fit>>

\* df = pd.read_sql_query(query,con)
Data_Query ==
  /\ db.pc = "query"
  /\ db' = IF db.relation = "exists"
           THEN [db EXCEPT !.pc = "finally", !.df = "loaded"]
           ELSE [db EXCEPT !.pc = "except", !.pending = "DatabaseError",
                           !.raised = "DatabaseError"]
  /\ UNCHANGED <<bp, ci, ops, rep, cr, tab, fit>>

\* the two except clauses: print, then raise exception
Data_Except ==
  /\ db.pc = "except"
  /\ db' = [db EXCEPT
              !.pc = "finally",
              !.out = CASE db.pending = "OperationalError" ->
                             <<"Error when trying to connect to the database!">>
                        [] db.pending = "DatabaseError" /\ db.relation = "missing" ->
                             <<"Could not find the sepsis3 view - did you run the SQL scripts in the query subfolder?">>
                        [] OTHER -> <<>>]
  /\ UNCHANGED <<bp, ci, ops, rep, cr, tab, fit>>

\* finally: if con: con.close()   (con is a local name, bound by connect only)
Data_Finally ==
  /\ db.pc = "finally"
  /\ db' = IF db.con = "unbound"
           THEN [db EXCEPT !.pc = "raise", !.exc = "UnboundLocalError"]
           ELSE IF db.pending # "none"
           THEN [db EXCEPT !.pc = "raise", !.exc = db.pending,
                           !.con = "closed", !.closes = @ + 1]
           ELSE [db EXCEPT !.pc = "cast", !.con = "closed", !.closes = @ + 1]
  /\ UNCHANGED <<bp, ci, ops, rep, cr, tab, fit>>

\* the casts and the added covariates, then return df
Data_Return ==
  /\ db.pc = "cast"
  /\ db' = [db EXCEPT !.pc = "return", !.df = "covariates added"]
  /\ UNCHANGED <<bp, ci, ops, rep, cr, tab, fit>>

NextData ==
  Data_Connect \/ Data_Query \/ Data_Except \/ Data_Finally \/ Data_Return

SpecData == InitData /\ [][NextData]_vars

\* ---------------------------------------------------------------------------
\* print_auc_table(preds, target, preds_header) and print_auc_table_to_file,
\* one cell per step, and a caller that swaps two names and calls again

\* the scores of two patients, and their outcome
Scores == [sirs |-> <<0, 1>>, qsofa |-> <<0, 2>>, sofa |-> <<0, 3>>]

Outcome == <<0, 1>>

\* the mappings that hold some of the predictions
Predictions ==
  {[name \in present |-> Scores[name]] : present \in SUBSET Covariates}

\* the data sets behind the results of calc_auc and test_auroc
DataSets == 0..1

\* the resamples a bootstrap may draw
Resamples == [1..MaxTableB -> [1..Len(Outcome) -> 0..(Len(Outcome) - 1)]]

Swapped(header, a, b) ==
  [i \in 1..Len(header) |->
     IF i = a THEN header[b] ELSE IF i = b THEN header[a] ELSE header[i]]

InitTable ==
  /\ \E fn \in {"print_auc_table", "print_auc_table_to_file"},
        preds \in Predictions, header \in Headers, env \in DataSets :
       tab = [pc |-> "call", fn |-> fn, preds |-> preds, target |-> Outcome,
              preds_header |-> header, env |-> env, p |-> 1, q |-> 1,
              out |-> <<>>, first |-> Unset, swap |-> Unset,
              file |-> [open |-> FALSE, lines |-> <<>>]]
  /\ bp = Idle
  /\ ci = Idle
  /\ ops = Idle
  /\ rep = Idle
  /\ cr = Idle
  /\ fit = Idle
  /\ db = Idle

\* the header line and the label of the first row; the file version opens f
Table_Call ==
  /\ tab.pc = "call"
  /\ tab' = [tab EXCEPT
               !.pc = IF tab.preds_header = <<>> THEN "end" ELSE "cell",
               !.p = 1,
               !.q = 1,
               !.file = IF tab.fn = "print_auc_table_to_file"
                        THEN [open |-> TRUE, lines |-> <<>>] ELSE @,
               !.out = <<(<<Blank(IF tab.fn = "print_auc_table" THEN 5 ELSE 0)>>
                          \o tab.preds_header)>>
                       \o (IF tab.preds_header = <<>> THEN <<>>
                           ELSE <<(<<tab.preds_header[1]>>)>>)]
  /\ UNCHANGED <<bp, ci, ops, rep, cr, fit, db>>

\* one pass of the inner loop of print_auc_table
Table_Cell ==
  /\ tab.pc = "cell"
  /\ tab.fn = "print_auc_table"
  /\ \E draw \in Resamples :
       tab' = table_advance(tab,
                WithCell(tab.out, table_cell(tab.preds, tab.preds_header,
                                             tab.env, draw, tab.p, tab.q)))
  /\ UNCHANGED <<bp, ci, ops, rep, cr, fit, db>>

\* one pass of the inner loop of print_auc_table_to_file
Table_FileCell ==
  /\ tab.pc = "cell"
  /\ tab.fn = "print_auc_table_to_file"
  /\ tab' = table_advance(tab,
              WithCell(tab.out, file_cell(tab.preds, tab.preds_header, tab.env,
                                          tab.p, tab.q)))
  /\ UNCHANGED <<bp, ci, ops, rep, cr, fit, db>>

\* the end of the outer loop; the file version closes f
Table_Return ==
  /\ tab.pc = "end"
  /\ tab' = [tab EXCEPT
               !.pc = "return",
               !.file = IF tab.fn = "print_auc_table_to_file"
                        THEN [open |-> FALSE, lines |-> tab.out] ELSE @]
  /\ UNCHANGED <<bp, ci, ops, rep, cr, fit, db>>

\* the caller swaps two names of the order and calls print_auc_table again
Table_Swap ==
  /\ tab.pc = "return"
  /\ tab.fn = "print_auc_table"
  /\ tab.first = Unset
  /\ \E a \in 1..Len(tab.preds_header) : \E b \in (a + 1)..Len(tab.preds_header) :
       tab' = [tab EXCEPT !.pc = "call", !.first = tab.out, !.out = <<>>,
                          !.swap = <<a, b>>,
                          !.preds_header = Swapped(tab.preds_header, a, b)]
  /\ UNCHANGED <<bp, ci, ops, rep, cr, fit, db>>

NextTable ==
  Table_Call \/ Table_Cell \/ Table_FileCell \/ Table_Return \/ Table_Swap

SpecTable == InitTable /\ [][NextTable]_vars

\* C(N,k) p^k (1-p)^(N-k)
BinomialTerm(N, p, k) ==
  RMul(RInt(Choose(N, k)), RMul(RPow(p, k), RPow(RSub(RInt(1), p), N - k)))

\* P(x1 <= X <= x2) for X ~ Binomial(N, p)
RECURSIVE BinomialTail(_, _, _, _)
BinomialTail(N, p, x1, x2) ==
  IF x1 > x2 THEN RZero
  ELSE RAdd(BinomialTerm(N, p, x1), BinomialTail(N, p, x1 + 1, x2))

\* C5: every call with 0 <= p <= 1 and 0 <= x1 <= x2 <= N returns the sum over
\* k in x1..x2 of C(N,k) p^k (1-p)^(N-k), whether or not the sums were rescaled.
TailProbabilityExact ==
  bp.pc = "done" =>
    /\ bp.ret.exc = "none"
    /\ REq(bp.ret.val, BinomialTail(bp.N, bp.p, bp.x1, bp.x2))

\* the same for p < 1, where the odds p/(1-p) exist
TailProbabilityExactBelowOne ==
  (bp.pc = "done" /\ RLt(bp.p, RInt(1))) =>
    /\ bp.ret.exc = "none"
    /\ bp.ret.iters = bp.N + 1
    /\ REq(bp.ret.val, BinomialTail(bp.N, bp.p, bp.x1, bp.x2))

RescaledCall == bp.pc = "done" /\ bp.ret.exc = "none" /\ bp.ret.rescales > 0

-----------------------------------------------------------------------------
(* Properties of binomial_proportion_ci.                                   *)

Finished == ci.pc \in {"return", "raise"}

\* C1: every call with 0 <= numerator <= denominator returns (low, high) with
\* 0 <= low <= numerator/denominator <= high <= 1.
IntervalBracketsRatio ==
  (Finished /\ 0 <= ci.numerator /\ ci.numerator <= ci.denominator) =>
    /\ ci.pc = "return"
    /\ RLe(RZero, ci.interval_low)
    /\ RLe(ci.interval_low, RFrac(ci.numerator, ci.denominator))
    /\ RLe(RFrac(ci.numerator, ci.denominator), ci.interval_high)
    /\ RLe(ci.interval_high, RInt(1))

\* the same for a positive denominator
IntervalBracketsRatioPositive ==
  (Finished /\ 0 <= ci.numerator /\ ci.numerator <= ci.denominator
            /\ ci.denominator > 0) =>
    /\ ci.pc = "return"
    /\ RLe(RZero, ci.interval_low)
    /\ RLe(ci.interval_low, RFrac(ci.numerator, ci.denominator))
    /\ RLe(RFrac(ci.numerator, ci.denominator), ci.interval_high)
    /\ RLe(ci.interval_high, RInt(1))

\* C2: every call with denominator < numerator or a negative argument fails
\* with InvalidProportion and returns no interval.
RejectsMalformedPair ==
  (Finished /\ (ci.denominator < ci.numerator \/ ci.numerator < 0
                \/ ci.denominator < 0)) =>
    (ci.pc = "raise" /\ ci.exc = "InvalidProportion")

\* C3: the call with numerator = 0 and denominator = 0 fails with
\* InvalidProportion or returns (0, 0), and ends in no other way.
ZeroDenominatorDefined ==
  (Finished /\ ci.numerator = 0 /\ ci.denominator = 0) =>
    \/ (ci.pc = "raise" /\ ci.exc = "InvalidProportion")
    \/ (ci.pc = "return" /\ ci.interval_low = RZero /\ ci.interval_high = RZero)

\* C4: for N > 0 the call (0, N) never enters the lower bisection and its
\* lower bound is exactly 0, the call (N, N) never enters the upper bisection
\* and its upper bound is exactly 1, and neither call raises.
DegenerateBoundsExact ==
  /\ (ci.pc # "idle" /\ ci.numerator = 0 /\ ci.denominator > 0) =>
       /\ ci.pc \notin {"lower_loop", "raise"}
       /\ ci.lower_iters = 0
       /\ ci.pc \in {"upper_init", "upper_loop", "return"} => ci.interval_low = RZero
  /\ (ci.pc # "idle" /\ ci.numerator = ci.denominator /\ ci.denominator > 0) =>
       /\ ci.pc \notin {"upper_loop", "raise"}
       /\ ci.upper_iters = 0
       /\ ci.pc = "return" => ci.interval_high = RInt(1)

DegenerateBoundsWitness ==
  /\ ci.pc = "return"
  /\ ci.numerator = ci.denominator
  /\ ci.denominator > 1
  /\ ci.interval_high = RInt(1)
  /\ ci.upper_iters = 0
  /\ ci.lower_iters > 0

\* a call within the documented domain
InDomain ==
  /\ ci.pc # "idle"
  /\ 0 <= ci.numerator /\ ci.numerator <= ci.denominator /\ ci.denominator > 0

InLoop == ci.pc \in {"lower_loop", "upper_loop"}

Width(f) == RSub(f.vsH, f.vsL)

\* in a loop the bracket is ordered and within [0,1] and v is inside it; no
\* call of binomial_proportion was made with p = 1, none raised, and each ran
\* denominator + 1 iterations
BisectionInvariant ==
  InDomain =>
    /\ ci.pc # "raise"
    /\ InLoop => /\ RLe(RZero, ci.vsL) /\ RLe(ci.vsL, ci.v)
                 /\ RLe(ci.v, ci.vsH) /\ RLe(ci.vsH, RInt(1))
                 /\ ci.v # RInt(1)
    /\ ci.lower_iters + ci.upper_iters > 0 =>
         /\ ci.last_p # RInt(1)
         /\ ci.last_iters = ci.denominator + 1

\* a pass of a loop halves the bracket and is made only while it is wider
\* than 10**-5; a loop is left only once it is no wider
BisectionStep ==
  (InDomain /\ InLoop) =>
    IF ci'.pc = ci.pc
    THEN /\ RGt(Width(ci), Tolerance)
         /\ REq(Width(ci'), RDiv(Width(ci), RInt(2)))
    ELSE /\ RLe(Width(ci), Tolerance)
         /\ ci'.pc \in {"upper_init", "return"}

\* C17: for 0 <= numerator <= denominator, denominator > 0 the call returns;
\* each bisection keeps vsL <= v <= vsH within [0,1], never calls
\* binomial_proportion with p = 1, halves vsH - vsL on every pass and leaves
\* its loop once the width is at most 10**-5; each inner loop runs
\* denominator + 1 iterations.
BisectionTerminates ==
  /\ []BisectionInvariant
  /\ [][BisectionStep]_vars
  /\ (InDomain ~> (ci.pc = "return"))

BisectionWitness ==
  /\ InDomain
  /\ ci.pc = "return"
  /\ ci.numerator > 0 /\ ci.numerator < ci.denominator
  /\ ci.lower_iters > 10 /\ ci.upper_iters > 10
  /\ ci.last_iters = ci.denominator + 1
  /\ RLe(Width(ci), Tolerance)

-----------------------------------------------------------------------------
(* Properties of get_op_stats.                                             *)

\* the target and the prediction row i is computed from, within its subgroup
TargetOf(i) ==
  LET y == IF ops.y_all.type = "numpy.ndarray" THEN ops.y_all.val ELSE ops.y_all.val[i]
  IN  IF ops.idx.given THEN Masked(y, ops.idx.val[i]) ELSE y

PredictionOf(i) ==
  IF ops.idx.given THEN Masked(ops.yhat_all[i], ops.idx.val[i]) ELSE ops.yhat_all[i]

\* the number of subjects of row i with target a and prediction b
Pairs(i, a, b) ==
  Cardinality({k \in 1..Len(TargetOf(i)) :
                 TargetOf(i)[k] = a /\ PredictionOf(i)[k] = b})

\* 100 * num / den as a percentage, not-a-number when den is 0
Percent(num, den) == IF den = 0 THEN NaN ELSE RFrac(100 * num, den)

Returned == ops.pc = "done" /\ ops.ret.exc = "none"

\* C6: a call with a single numpy target vector returns the table that the
\* call with a list repeating that vector once per prediction returns.
BroadcastEqualsRepeated ==
  (ops.pc = "done" /\ ops.y_all.type = "numpy.ndarray") =>
    ops.ret = get_op_stats(ops.yhat_all,
                [type |-> "list",
                 val |-> [i \in 1..Len(ops.yhat_all) |-> ops.y_all.val]],
                ops.idx)

BroadcastWitness ==
  /\ Returned
  /\ ops.y_all.type = "numpy.ndarray"
  /\ Len(ops.yhat_all) = 2
  /\ ops.ret.stats_all[1] # ops.ret.stats_all[2]

\* C7: every row of a returned table holds, in the order TN, FP, FN, TP, Sens,
\* Spec, PPV, NPV, F1, the four pair counts of its subgroup, which add up to
\* the subgroup's size, the four rates as percentages of those counts, and F1
\* as the harmonic mean of PPV and Sens, 200*TP / (2*TP + FP + FN); the target
\* 1,1,0,0 with the prediction 1,0,0,1 gives 50 for all five rates.
RowsAreConfusionStatistics ==
  Returned =>
    \A i \in 1..Len(ops.yhat_all) :
      LET row == ops.ret.stats_all[i]
          TN  == Pairs(i, 0, 0)
          FP  == Pairs(i, 0, 1)
          FN  == Pairs(i, 1, 0)
          TP  == Pairs(i, 1, 1)
      IN  /\ Len(row) = 11
          /\ row[1] = RInt(TN) /\ row[2] = RInt(FP)
          /\ row[3] = RInt(FN) /\ row[4] = RInt(TP)
          /\ REq(RAdd(RAdd(row[1], row[2]), RAdd(row[3], row[4])),
                 RInt(Len(TargetOf(i))))
          /\ row[5] = Percent(TP, TP + FN)
          /\ row[6] = Percent(TN, TN + FP)
          /\ row[7] = Percent(TP, TP + FP)
          /\ row[8] = Percent(TN, TN + FN)
          /\ row[9] = (IF TP = 0 \/ TP + FP = 0 \/ TP + FN = 0 THEN NaN
                       ELSE RFrac(200 * TP, 2 * TP + FP + FN))
          /\ (TargetOf(i) = <<1, 1, 0, 0>> /\ PredictionOf(i) = <<1, 0, 0, 1>>) =>
               \A n \in 5..9 : row[n] = RInt(50)

ExampleWitness ==
  /\ Returned
  /\ ~ops.idx.given
  /\ TargetOf(1) = <<1, 1, 0, 0>>
  /\ PredictionOf(1) = <<1, 0, 0, 1>>
  /\ ops.ret.stats_all[1][5] = RInt(50)

\* C8: every call returns normally, and every rate of the returned table
\* whose denominator is 0 is not-a-number.
NeverRaises ==
  ops.pc = "done" =>
    /\ ops.ret.exc = "none"
    /\ \A i \in 1..Len(ops.yhat_all) :
         LET row == ops.ret.stats_all[i]
         IN  /\ Pairs(i, 1, 1) + Pairs(i, 1, 0) = 0 => IsNaN(row[5])
             /\ Pairs(i, 0, 0) + Pairs(i, 0, 1) = 0 => IsNaN(row[6])
             /\ Pairs(i, 1, 1) + Pairs(i, 0, 1) = 0 => IsNaN(row[7])
             /\ Pairs(i, 0, 0) + Pairs(i, 1, 0) = 0 => IsNaN(row[8])

\* every derived rate of a returned table whose denominator is 0 is
\* not-a-number, and a call raises only when a subgroup holds one class
DegenerateRatesAreNaN ==
  /\ Returned =>
       \A i \in 1..Len(ops.yhat_all) :
         LET row == ops.ret.stats_all[i]
         IN  /\ Pairs(i, 1, 1) + Pairs(i, 1, 0) = 0 => IsNaN(row[5])
             /\ Pairs(i, 0, 0) + Pairs(i, 0, 1) = 0 => IsNaN(row[6])
             /\ Pairs(i, 1, 1) + Pairs(i, 0, 1) = 0 => IsNaN(row[7])
             /\ Pairs(i, 0, 0) + Pairs(i, 1, 0) = 0 => IsNaN(row[8])
  /\ (ops.pc = "done" /\ ops.ret.exc # "none") =>
       /\ ops.ret.exc = "IndexError"
       /\ \E i \in 1..Len(ops.yhat_all) :
            Cardinality({TargetOf(i)[k] : k \in 1..Len(TargetOf(i))}
                        \cup {PredictionOf(i)[k] : k \in 1..Len(PredictionOf(i))}) < 2

-----------------------------------------------------------------------------
(* Properties of print_op_stats and print_stats_to_file.                   *)

ReportEnded == rep.pc \in {"return", "raise"}

\* the report has the rows of the table, each with a cell per prediction
FullReport ==
  IF rep.fn = "print_op_stats"
  THEN /\ Len(rep.out) = 3 + Len(stats_names)
       /\ \A n \in 1..Len(stats_names) :
            /\ rep.out[3 + n][1] = stats_names[n]
            /\ Len(rep.out[3 + n]) = 1 + Len(rep.yhat_names)
  ELSE /\ Len(rep.file.lines) = 1 + Len(rep.yhat_names)
       /\ rep.file.partial = <<>>

\* C9: for every table get_op_stats produced, also one with an undefined
\* rate, print_op_stats and print_stats_to_file end by returning, with the
\* full report rendered; neither raises.
ReportsRenderWithoutRaising ==
  ReportEnded => (rep.pc = "return" /\ rep.exc = "none" /\ FullReport)

\* C10: print_stats_to_file completes and leaves the header row Subgroup, TN,
\* FP, FN, TP, N, Sens, Spec, PPV, NPV, F1, NTP, NFP followed by exactly M
\* rows, one per prediction name in order, each with a cell per header column
\* (stated for the reports whose interval calls all returned; the others are
\* C9's).
FileIsHeaderAndRows ==
  (ReportEnded /\ rep.fn = "print_stats_to_file" /\ rep.exc # "ZeroDivisionError") =>
    /\ rep.pc = "return"
    /\ Len(rep.file.lines) = 1 + Len(rep.yhat_names)
    /\ rep.file.partial = <<>>
    /\ rep.file.lines[1] = <<"Subgroup", "TN", "FP", "FN", "TP", "N", "Sens",
                             "Spec", "PPV", "NPV", "F1", "NTP", "NFP">>
    /\ \A i \in 1..Len(rep.yhat_names) :
         /\ rep.file.lines[1 + i][1] = rep.yhat_names[i]
         /\ Len(rep.file.lines[1 + i]) = 13

\* print_op_stats returns exactly when every interval call has a positive
\* denominator, and print_stats_to_file only for an empty table
ReportOutcomes ==
  ReportEnded =>
    LET defined == \A i \in 1..Len(rep.stats_all) : \A n \in 4..7 :
                     ci_args(rep.stats_all[i], n)[2] > 0
    IN  /\ ~defined => (rep.pc = "raise" /\ rep.exc = "ZeroDivisionError")
        /\ (defined /\ rep.fn = "print_op_stats") => (rep.pc = "return" /\ FullReport)
        /\ (defined /\ rep.fn = "print_stats_to_file" /\ rep.stats_all # <<>>) =>
             (rep.pc = "raise" /\ rep.exc = "TypeError" /\ rep.file.open)

\* the number a printed cell shows, in units of 10^-decimals
Shown(c) == c.sg * c.units

\* C18: in the report print_op_stats prints, on each of the rows Sens, Spec,
\* PPV and NPV and for each prediction whose rate is defined, the printed
\* interval brackets the printed value: low <= value <= high.
PrintedIntervalBracketsValue ==
  (rep.pc = "return" /\ rep.fn = "print_op_stats") =>
    \A n \in 5..8 : \A i \in 1..Len(rep.yhat_names) :
      LET cell == rep.out[3 + n][1 + i]
      IN  ~IsNaN(rep.stats_all[i][n]) =>
            /\ Shown(cell.low) <= Shown(cell.value)
            /\ Shown(cell.value) <= Shown(cell.high)

\* C11: no call of print_stats_to_file ends, by returning or by an exception
\* of an interval call or of a write, with the file it opened still open.
FileHandleReleased ==
  (ReportEnded /\ rep.fn = "print_stats_to_file") => ~rep.file.open

\* the two rows are the same vector, whose variance is defined and not zero
IdenticalRows ==
  /\ cr.pc = "return"
  /\ cr.X[1] = cr.X[2]
  /\ RGt(var(cr.X[1], 1), RZero)

\* C14: for two identical rows of nonzero variance cronbach_alpha_bootstrap
\* returns alpha = 1.0 and an interval whose two ends are 1.0, whatever the
\* resamples drawn.
IdenticalRowsGiveOne ==
  IdenticalRows =>
    /\ cr.ret.alpha = RInt(1)
    /\ cr.ret.ci = <<RInt(1), RInt(1)>>

\* calc_predictions has ended, by returning or by an exception
PredictionsEnded == fit.pc \in {"return", "raise"}

\* the calls of the fitting process that returned a non-zero status
FailedFits == {i \in 1..Len(fit.errs) : fit.errs[i] # 0}

\* C16: with model 'mfp_baseline' or 'mfp', calc_predictions returns normally
\* whatever the exit statuses of the fitting process; each non-zero status is
\* reported, and with 'mfp' the result holds exactly the covariates whose
\* process returned 0.
FitFailureIsReported ==
  (PredictionsEnded /\ fit.model \in {"mfp_baseline", "mfp"}) =>
    /\ fit.pc = "return"
    /\ Len(fit.out) = Cardinality(FailedFits)
    /\ fit.model = "mfp" =>
         DOMAIN fit.ret = {fit.preds_header[i] : i \in 1..Len(fit.errs)}
                            \ {fit.preds_header[i] : i \in FailedFits}

\* control has left get_data
DataEnded == db.pc \in {"return", "raise"}

\* C19: when control leaves get_data, a connection that was opened has been
\* closed exactly once, and if connect or the query raised, the exception the
\* caller receives is that error.
ConnectionClosedAndErrorKept ==
  DataEnded =>
    /\ db.server = "up" => (db.con = "closed" /\ db.closes = 1)
    /\ db.server # "up" => db.closes = 0
    /\ db.raised # "none" => (db.pc = "raise" /\ db.exc = db.raised)

\* the table is complete
TableReturned == tab.pc = "return"

\* the cell of row i and column j of a table
Cell(lines, i, j) == lines[1 + i][1 + j]

Present(name) == name \in DOMAIN tab.preds

\* the statistic the cell of row i and column j holds by the order of i and j
StatisticAt(i, j) ==
  IF ~Present(tab.preds_header[i]) \/ ~Present(tab.preds_header[j]) THEN "blank"
  ELSE IF i = j THEN "calc_auc"
  ELSE IF j > i THEN "cronbach_alpha_bootstrap"
  ELSE "test_auroc"

\* C12: the table of either function has one row and one column per name, and
\* the cell of row i and column j is blank when either name is missing from
\* the mapping, else the AUROC on the diagonal, Cronbach's alpha above it and
\* the paired-test p-value below it.
CellsFollowOrder ==
  TableReturned =>
    /\ Len(tab.out) = 1 + Len(tab.preds_header)
    /\ \A i \in 1..Len(tab.preds_header) :
         /\ Len(tab.out[1 + i]) = 1 + Len(tab.preds_header)
         /\ tab.out[1 + i][1] = tab.preds_header[i]
         /\ \A j \in 1..Len(tab.preds_header) :
              Cell(tab.out, i, j).by = StatisticAt(i, j)

\* the same, of print_auc_table alone
ConsoleCellsFollowOrder == tab.fn = "print_auc_table" => CellsFollowOrder

\* the second table is complete
Rerun == TableReturned /\ tab.first # Unset

\* where the caller's swap moved position i from
Sigma(i) ==
  IF i = tab.swap[1] THEN tab.swap[2]
  ELSE IF i = tab.swap[2] THEN tab.swap[1]
  ELSE i

OrderKept(i, j) == (i < j) <=> (Sigma(i) < Sigma(j))

\* the same statistic with the same value; a bootstrap interval is drawn anew
SameStatistic(c, d) ==
  IF c.by = "cronbach_alpha_bootstrap"
  THEN d.by = c.by /\ d.value = c.value
  ELSE c = d

PValueAt(i, j) == test_auroc(tab.env, tab.preds_header[i], tab.preds_header[j])

\* C15: a cell below the diagonal reads "< 0.001" exactly when its p-value is
\* below 0.001, and otherwise the p-value to three decimals, as the p-values
\* print_demographics prints do.
PValueCellsFollowRule ==
  TableReturned =>
    \A i \in 1..Len(tab.preds_header) : \A j \in 1..Len(tab.preds_header) :
      Cell(tab.out, i, j).by = "test_auroc" =>
        /\ Cell(tab.out, i, j).text = "< 0.001"
             <=> (~IsNaN(PValueAt(i, j)) /\ RLt(PValueAt(i, j), Threshold))
        /\ Cell(tab.out, i, j).text # "< 0.001"
             => Cell(tab.out, i, j).text = Fixed(PValueAt(i, j), 3)
        /\ Cell(tab.out, i, j).text = demographics_pvalue(PValueAt(i, j))
====
